---- MODULE Spec2Model ----
(***************************************************************************)
(* Model of the safety-walks dashboard script (src/app.py).                *)
(*                                                                         *)
(* One run of the script over one upload is a sequence of steps: read and  *)
(* coerce, filter, empty check, district sort, overall summary, one step   *)
(* per district section, and the trailing sidebar text.  Everything the    *)
(* page shows is appended to `shown`; the message boxes (st.info,          *)
(* st.warning, st.error) are kept in `message`.                            *)
(*                                                                         *)
(* Text cells are sequences of one-character strings, so that startswith,  *)
(* split, strip and the lexicographic order of sorted() are computed.      *)
(* A cell is a record [isna, s]: isna is a missing cell (NaN).             *)
(***************************************************************************)
EXTENDS Integers, Sequences, FiniteSets

VARIABLES
    uploaded,        \* uploaded_file is not None
    cols,            \* column names of the "Export" sheet
    rows,            \* the sheet's rows, in file order
    current_period,  \* the sidebar's number_input
    pc,              \* position of the script
    df,              \* the data frame being processed
    districts,       \* the sorted list the district loop iterates over
    totals,          \* total_units, total_target, total_actual
    di,              \* number of loop passes completed
    pies,            \* every argument list handed to ax.pie
    shown,           \* what the page has rendered, in order
    message,         \* the message boxes shown; an error box names the exception
                     \* and the line that raised it
    sidebar          \* the trailing "How to share" sidebar text was rendered

vars == <<uploaded, cols, rows, current_period, pc, df, districts, totals, di,
          pies, shown, message, sidebar>>

---------------------------------------------------------------------------
(* Bounds of the model *)

MaxRows == 2

MaxPeriodChecked == 2

(* Program constants *)

MinPeriod == 1

MaxPeriod == 12

---------------------------------------------------------------------------
(* Small helpers *)

Min(a, b) == IF a <= b THEN a ELSE b

Max(a, b) == IF a >= b THEN a ELSE b

Range(s) == {s[i] : i \in 1..Len(s)}

Front(s) == SubSeq(s, 1, Len(s) - 1)

RECURSIVE SumSeq(_)
SumSeq(s) ==
    IF s = <<>> THEN 0 ELSE s[Len(s)] + SumSeq(Front(s))

---------------------------------------------------------------------------
(* Cells and text *)

NaN == [isna |-> TRUE, s |-> <<>>]

Txt(s) == [isna |-> FALSE, s |-> s]

\* The characters used by the sample cells, in ascending code point order.
Alphabet == <<" ", "-", "0", "1", "2", "3", "6", "E", "O", "S", "U", "a", "b",
              "e", "n", "p", "s", "z">>

Code(c) == CHOOSE i \in 1..Len(Alphabet) : Alphabet[i] = c

\* Python's str < str: code point order at the first difference, a proper
\* prefix is smaller.
RECURSIVE StrLess(_, _)
StrLess(a, b) ==
    IF b = <<>> THEN FALSE
    ELSE IF a = <<>> THEN TRUE
    ELSE IF a[1] # b[1] THEN Code(a[1]) < Code(b[1])
    ELSE StrLess(Tail(a), Tail(b))

StrLeq(a, b) == a = b \/ StrLess(a, b)

\* str.startswith(prefix)
StartsWith(s, p) ==
    Len(s) >= Len(p) /\ SubSeq(s, 1, Len(p)) = p

\* '-' in s
HasDash(s) == \E i \in 1..Len(s) : s[i] = "-"

\* s.split('-')[-1]: the text after the last '-'
AfterLastDash(s) ==
    LET last == CHOOSE i \in 1..Len(s) :
                    s[i] = "-" /\ \A j \in (i + 1)..Len(s) : s[j] # "-"
    IN  SubSeq(s, last + 1, Len(s))

\* str.strip(): leading and trailing blanks removed
RECURSIVE LStrip(_)
LStrip(s) ==
    IF s # <<>> /\ s[1] = " " THEN LStrip(Tail(s)) ELSE s

RECURSIVE RStrip(_)
RStrip(s) ==
    IF s # <<>> /\ s[Len(s)] = " " THEN RStrip(Front(s)) ELSE s

Strip(s) == RStrip(LStrip(s))

\* str(x): the text itself, 'nan' for a missing cell
StrOf(x) == IF x.isna THEN <<"n", "a", "n">> ELSE x.s

---------------------------------------------------------------------------
(* The upload *)

ColWalks == "# of Safety Walks Completed YTD"

ColLabel == "Unit # - Unit Name"

ColSector == "Sector Name"

ColDistrict == "District"

ColType == "Unit Type"

AllColumns == {ColWalks, ColLabel, ColSector, ColDistrict, ColType}

\* A sheet with every column, or with one of them absent.
ColumnSets == {AllColumns} \cup {AllColumns \ {c} : c \in AllColumns}

\* Raw values of the walks column: a blank cell, a text that is no number,
\* or a number, kept in tenths (25 is 2.5).
Blank == [kind |-> "blank", tenths |-> 0]

Text == [kind |-> "text", tenths |-> 0]

Num(t) == [kind |-> "num", tenths |-> t]

RawValues == {Blank, Text, Num(-10), Num(-5), Num(25)}

Labels == {NaN, Txt(<<"U">>)}

Ops == Txt(<<"0", "1", "-", "O", "p", "s">>)

ESS == Txt(<<"0", "6", "-", "E", "S", "S", " ", "S">>)

EssLower == Txt(<<"0", "6", "-", "e", "s", "s">>)

Sectors == {NaN, Ops, ESS, EssLower}

DistrictB1 == Txt(<<"1", "-", "b">>)

DistrictB2 == Txt(<<"2", "-", " ", "b">>)

DistrictA == Txt(<<"a">>)

DistrictZ == Txt(<<"3", "-", "z">>)

Districts == {NaN, DistrictB1, DistrictB2, DistrictA, DistrictZ}

Row(l, s, d, w) == [label |-> l, sector |-> s, district |-> d, raw |-> w]

\* Rows that exercise the label and sector filters and the coercion
RowsNormalizer ==
    {Row(l, s, DistrictB1, Blank) : l \in Labels, s \in Sectors}
        \cup {Row(Txt(<<"U">>), Ops, DistrictB1, w) : w \in RawValues}

\* Retained rows that exercise grouping, ordering and the totals
RowsAggregator ==
    {Row(Txt(<<"U">>), Ops, d, w) : d \in Districts,
                                    w \in {Blank, Num(-10), Num(25)}}

Rows == RowsNormalizer \cup RowsAggregator

Periods == MinPeriod..Min(MaxPeriod, MaxPeriodChecked)

---------------------------------------------------------------------------
(* Line 26: to_numeric(errors='coerce').fillna(0).astype(int) *)

\* pd.to_numeric(..., errors='coerce'): NaN for what is no number
ToNumeric(raw) ==
    IF raw.kind = "num" THEN [isna |-> FALSE, tenths |-> raw.tenths]
    ELSE [isna |-> TRUE, tenths |-> 0]

\* .fillna(0)
FillNa0(v) == IF v.isna THEN 0 ELSE v.tenths

\* .astype(int): the fraction is dropped, towards zero
AsTypeInt(t) == IF t >= 0 THEN t \div 10 ELSE -((-t) \div 10)

WalksYtd(raw) == AsTypeInt(FillNa0(ToNumeric(raw)))

\* The frame after line 26: every row with its index and its Walks_YTD
Coerced(rs) ==
    [i \in 1..Len(rs) |->
        [idx |-> i, label |-> rs[i].label, sector |-> rs[i].sector,
         district |-> rs[i].district, Walks_YTD |-> WalksYtd(rs[i].raw)]]

---------------------------------------------------------------------------
(* Lines 27-28: the label and sector filters *)

\* df[df['Unit # - Unit Name'].notna()]
FilterLabel(frame) == SelectSeq(frame, LAMBDA r : ~r.label.isna)

\* The .str accessor exists on a column of object dtype only.  read_excel
\* gives a column without any text cell a numeric dtype (float64 when all
\* its cells are blank), and a sheet without rows object columns.
StrAccessorOk(rs) ==
    rs = <<>> \/ \E i \in 1..Len(rs) : ~rs[i].sector.isna

ExcludedPrefix == <<"0", "6", "-", "E", "S", "S">>

\* .str.startswith('06-ESS', na=False): False for a missing cell
SectorExcluded(c) == IF c.isna THEN FALSE ELSE StartsWith(c.s, ExcludedPrefix)

\* df[~df['Sector Name'].str.startswith('06-ESS', na=False)]
FilterSector(frame) == SelectSeq(frame, LAMBDA r : ~SectorExcluded(r.sector))

\* A check that never finds the frame empty (not what df.empty does)
NeverEmpty(frame) == FALSE

\* if df.empty
IsEmpty(frame) == Len(frame) = 0

---------------------------------------------------------------------------
(* Lines 35-38: the districts, in presentation order *)

\* Series.unique(): the distinct values in order of first appearance; the
\* missing cells count as one value.
RECURSIVE Unique(_)
Unique(s) ==
    IF s = <<>> THEN <<>>
    ELSE LET u == Unique(Front(s))
         IN  IF s[Len(s)] \in Range(u) THEN u ELSE Append(u, s[Len(s)])

DistrictColumn(frame) == [i \in 1..Len(frame) |-> frame[i].district]

\* key=lambda x: x.split('-')[-1].strip()
\*               if pd.notna(x) and '-' in str(x) else str(x)
SortKey(x) ==
    IF ~x.isna /\ HasDash(StrOf(x)) THEN Strip(AfterLastDash(x.s))
    ELSE StrOf(x)

\* A sort step that puts x in front of the elements of equal key (not what
\* sorted() does)
RECURSIVE InsertByKeyTiesFirst(_, _)
InsertByKeyTiesFirst(x, s) ==
    IF s = <<>> THEN <<x>>
    ELSE IF StrLess(SortKey(s[Len(s)]), SortKey(x)) THEN Append(s, x)
    ELSE Append(InsertByKeyTiesFirst(x, Front(s)), s[Len(s)])

\* One step of a stable sort: x goes behind every element whose key is not
\* greater than its own.
RECURSIVE InsertByKey(_, _)
InsertByKey(x, s) ==
    IF s = <<>> THEN <<x>>
    ELSE IF StrLeq(SortKey(s[Len(s)]), SortKey(x)) THEN Append(s, x)
    ELSE Append(InsertByKey(x, Front(s)), s[Len(s)])

\* sorted(values, key=...): ascending by key, equal keys in their given order
RECURSIVE SortedByKey(_)
SortedByKey(s) ==
    IF s = <<>> THEN <<>>
    ELSE InsertByKey(s[Len(s)], SortedByKey(Front(s)))

SortedDistricts(frame) == SortedByKey(Unique(DistrictColumn(frame)))

---------------------------------------------------------------------------
(* Lines 41-66 and 73-108: totals, behind list, chart segments *)

\* df['District'] == district: a missing cell equals nothing, itself included
CellEq(a, b) == ~a.isna /\ ~b.isna /\ a.s = b.s

\* group = df[df['District'] == district]
Group(frame, district) ==
    SelectSeq(frame, LAMBDA r : CellEq(r.district, district))

\* '-' in district raises TypeError when district is no text
DmNameRaises(district) == district.isna

\* dm_name = district.split('-')[-1].strip() if '-' in district else district
DmName(district) ==
    IF HasDash(district.s) THEN Strip(AfterLastDash(district.s)) ELSE district.s

WalksOf(frame) == [i \in 1..Len(frame) |-> frame[i].Walks_YTD]

\* group[group['Walks_YTD'] < current_period][[label, type, Walks_YTD]]; idx
\* is the row's index label, which the frame keeps.
BehindRows(group, period) ==
    LET sel == SelectSeq(group, LAMBDA r : r.Walks_YTD < period)
    IN  [i \in 1..Len(sel) |->
            [idx |-> sel[i].idx, label |-> sel[i].label,
             Walks_YTD |-> sel[i].Walks_YTD]]

Ascending(s) ==
    \A i \in 1..Len(s) : \A j \in i..Len(s) : s[i].Walks_YTD <= s[j].Walks_YTD

Permutations(n) ==
    {p \in [1..n -> 1..n] : \A i, j \in 1..n : p[i] = p[j] => i = j}

\* DataFrame.sort_values('Walks_YTD') sorts with kind='quicksort', which
\* promises no order among equal values: every ascending arrangement of the
\* rows is a possible result.
SortValues(s) ==
    {t \in {[i \in 1..Len(s) |-> s[p[i]]] : p \in Permutations(Len(s))} :
        Ascending(t)}

BehindOrders(group, period) == SortValues(BehindRows(group, period))

\* The completed segment without its cap (not what the code computes)
CompletedUncapped(actual, target) == actual

\* completed = min(actual, target)
Completed(actual, target) == Min(actual, target)

\* remaining = max(target - actual, 0)
Remaining(actual, target) == Max(target - actual, 0)

\* excess = max(actual - target, 0)
Excess(actual, target) == Max(actual - target, 0)

\* The labels and sizes handed to ax.pie
PieCall(actual, target) ==
    IF Excess(actual, target) > 0
    THEN [labels |-> <<"On Target", "Excess">>,
          values |-> <<Completed(actual, target), Excess(actual, target)>>,
          actual |-> actual, target |-> target]
    ELSE [labels |-> <<"Completed", "Remaining">>,
          values |-> <<Completed(actual, target), Remaining(actual, target)>>,
          actual |-> actual, target |-> target]

\* ax.pie raises ValueError on a negative wedge size
PieRaises(call) == \E i \in 1..Len(call.values) : call.values[i] < 0

\* One rendered element of the page
Item(kind, key, units, target, actual, list, call) ==
    [kind |-> kind, key |-> key, units |-> units, target |-> target,
     actual |-> actual, list |-> list, labels |-> call.labels,
     values |-> call.values]

NoCall == [labels |-> <<>>, values |-> <<>>, actual |-> 0, target |-> 0]

\* Lines 41-66: what the overall summary renders, the pie arguments, and the
\* exception that ends it ("none" when it completes)
OverallSection(frame, period) ==
    LET total_units == Len(frame)
        total_target == total_units * period
        total_actual == SumSeq(WalksOf(frame))
        call == PieCall(total_actual, total_target)
        metrics == Item("overall_metrics", NaN, total_units, total_target,
                        total_actual, <<>>, NoCall)
        chart == Item("overall_chart", NaN, total_units, total_target,
                      total_actual, <<>>, call)
    IN  [totals |-> [units |-> total_units, target |-> total_target,
                     actual |-> total_actual],
         pies |-> <<call>>,
         shown |-> IF PieRaises(call) THEN <<metrics>> ELSE <<metrics, chart>>,
         exc |-> IF PieRaises(call) THEN "ValueError" ELSE "none",
         line |-> IF Excess(total_actual, total_target) > 0 THEN 59 ELSE 63]

\* Lines 73-108: one pass of the district loop, with `behind` the result of
\* sort_values
DistrictSection(frame, columns, period, district, behind) ==
    LET group == Group(frame, district)
        num_units == Len(group)
        target == num_units * period
        actual == SumSeq(WalksOf(group))
        call == PieCall(actual, target)
        header == Item("district_header", district, num_units, target, actual,
                       <<>>, NoCall)
        table == Item(IF behind # <<>> THEN "behind_table" ELSE "all_on_target",
                      district, num_units, target, actual, behind, NoCall)
        chart == Item("district_chart", district, num_units, target, actual,
                      <<>>, call)
    IN  IF DmNameRaises(district)
        THEN [pies |-> <<>>, shown |-> <<>>, exc |-> "TypeError", line |-> 74]
        ELSE IF ColType \notin columns
        THEN [pies |-> <<>>, shown |-> <<header>>, exc |-> "KeyError",
              line |-> 85]
        ELSE IF PieRaises(call)
        THEN [pies |-> <<call>>, shown |-> <<header, table>>,
              exc |-> "ValueError",
              line |-> IF Excess(actual, target) > 0 THEN 101 ELSE 105]
        ELSE [pies |-> <<call>>, shown |-> <<header, table, chart>>,
              exc |-> "none", line |-> 108]

---------------------------------------------------------------------------
(* Control flow: try / except Exception, st.stop() *)

\* A handler that catches everything, st.stop() included (not what the
\* code's except clause does)
CaughtAll(e) == TRUE

\* except Exception: st.stop() raises StopException, which derives from
\* BaseException and passes through.
Caught(e) == e # "StopException"

Box(kind, e, line) == [kind |-> kind, exc |-> e, line |-> line]

\* An exception raised inside the try block, with the boxes shown before it
Raise(e, line, boxes) ==
    /\ message' = IF Caught(e)
                  THEN message \o boxes \o <<Box("error", e, line)>>
                  ELSE message \o boxes
    /\ pc' = IF Caught(e) THEN "failed" ELSE "stopped"

---------------------------------------------------------------------------
(* The run *)

\* An absent column has no cells.
CellsOfAbsentColumns(cs, r) ==
    /\ ColWalks \notin cs => r.raw = Blank
    /\ ColLabel \notin cs => r.label = NaN
    /\ ColSector \notin cs => r.sector = NaN
    /\ ColDistrict \notin cs => r.district = NaN

Init ==
    /\ uploaded \in BOOLEAN
    /\ cols \in ColumnSets
    /\ rows \in UNION {[1..n -> Rows] : n \in 0..MaxRows}
    /\ current_period \in Periods
    /\ \A i \in 1..Len(rows) : CellsOfAbsentColumns(cols, rows[i])
    /\ ~uploaded => cols = AllColumns /\ rows = <<>>
    /\ pc = "start"
    /\ df = <<>>
    /\ districts = <<>>
    /\ totals = [units |-> 0, target |-> 0, actual |-> 0]
    /\ di = 0
    /\ pies = <<>>
    /\ shown = <<>>
    /\ message = <<>>
    /\ sidebar = FALSE

\* Lines 112-114: no file yet
NoUpload ==
    /\ pc = "start"
    /\ ~uploaded
    /\ message' = Append(message, Box("info", "none", 113))
    /\ pc' = "stopped"
    /\ UNCHANGED <<uploaded, cols, rows, current_period, df, districts, totals,
                   di, pies, shown, sidebar>>

\* Lines 23-26: read the sheet, add Walks_YTD
Coerce ==
    /\ pc = "start"
    /\ uploaded
    /\ IF ColWalks \notin cols
       THEN Raise("KeyError", 26, <<>>) /\ UNCHANGED df
       ELSE /\ df' = Coerced(rows)
            /\ pc' = "filter"
            /\ UNCHANGED message
    /\ UNCHANGED <<uploaded, cols, rows, current_period, districts, totals, di,
                   pies, shown, sidebar>>

\* Lines 27-28
FilterRows ==
    /\ pc = "filter"
    /\ IF ColLabel \notin cols
       THEN Raise("KeyError", 27, <<>>) /\ UNCHANGED df
       ELSE IF ColSector \notin cols
       THEN Raise("KeyError", 28, <<>>) /\ df' = FilterLabel(df)
       ELSE IF ~StrAccessorOk(rows)
       THEN Raise("AttributeError", 28, <<>>) /\ df' = FilterLabel(df)
       ELSE /\ df' = FilterSector(FilterLabel(df))
            /\ pc' = "check"
            /\ UNCHANGED message
    /\ UNCHANGED <<uploaded, cols, rows, current_period, districts, totals, di,
                   pies, shown, sidebar>>

\* Lines 30-32
EmptyCheck ==
    /\ pc = "check"
    /\ IF IsEmpty(df)
       THEN Raise("StopException", 32, <<Box("warning", "none", 31)>>)
       ELSE /\ pc' = "sort"
            /\ UNCHANGED message
    /\ UNCHANGED <<uploaded, cols, rows, current_period, df, districts, totals,
                   di, pies, shown, sidebar>>

\* Lines 35-38
SortDistricts ==
    /\ pc = "sort"
    /\ IF ColDistrict \notin cols
       THEN Raise("KeyError", 36, <<>>) /\ UNCHANGED districts
       ELSE /\ districts' = SortedDistricts(df)
            /\ pc' = "overall"
            /\ UNCHANGED message
    /\ UNCHANGED <<uploaded, cols, rows, current_period, df, totals, di, pies,
                   shown, sidebar>>

\* Lines 41-68
OverallSummary ==
    /\ pc = "overall"
    /\ LET r == OverallSection(df, current_period)
       IN  /\ totals' = r.totals
           /\ pies' = pies \o r.pies
           /\ shown' = shown \o r.shown
           /\ IF r.exc # "none"
              THEN Raise(r.exc, r.line, <<>>)
              ELSE /\ pc' = IF districts = <<>> THEN "done" ELSE "loop"
                   /\ UNCHANGED message
    /\ UNCHANGED <<uploaded, cols, rows, current_period, df, districts, di,
                   sidebar>>

\* Lines 72-108: one pass of the loop
DistrictStep ==
    /\ pc = "loop"
    /\ \E behind \in BehindOrders(Group(df, districts[di + 1]), current_period) :
         LET r == DistrictSection(df, cols, current_period, districts[di + 1],
                                  behind)
         IN  /\ pies' = pies \o r.pies
             /\ shown' = shown \o r.shown
             /\ IF r.exc # "none"
                THEN Raise(r.exc, r.line, <<>>) /\ UNCHANGED di
                ELSE /\ di' = di + 1
                     /\ pc' = IF di + 1 = Len(districts) THEN "done" ELSE "loop"
                     /\ UNCHANGED message
    /\ UNCHANGED <<uploaded, cols, rows, current_period, df, districts, totals,
                   sidebar>>

\* Lines 116-123: reached after the report and after a caught exception, not
\* after st.stop()
Sidebar ==
    /\ pc \in {"done", "failed"}
    /\ sidebar' = TRUE
    /\ pc' = "end"
    /\ UNCHANGED <<uploaded, cols, rows, current_period, df, districts, totals,
                   di, pies, shown, message>>

Next ==
    \/ NoUpload
    \/ Coerce
    \/ FilterRows
    \/ EmptyCheck
    \/ SortDistricts
    \/ OverallSummary
    \/ DistrictStep
    \/ Sidebar

Spec == Init /\ [][Next]_vars

---------------------------------------------------------------------------
(* Stages of a run, read off the state *)

Errors == {m \in Range(message) : m.kind = "error"}

Warnings == {m \in Range(message) : m.kind = "warning"}

\* An exception was raised at or before the given line.
FailedBy(line) == \E m \in Errors : m.line <= line

\* The run is over: st.stop() was called, or the script ran to its last line.
Ended == pc \in {"stopped", "end"}

\* Lines 23-28 completed: df holds the retained records.
Normalised == uploaded /\ pc \notin {"start", "filter"} /\ ~FailedBy(28)

\* Lines 35-38 completed: the presentation order is known.
DistrictsSorted ==
    Normalised /\ pc \notin {"check", "sort", "stopped"} /\ ~FailedBy(38)

\* Lines 41-43 completed: the overall totals are known.
OverallComputed == DistrictsSorted /\ pc # "overall"

ItemsOf(kinds) == SelectSeq(shown, LAMBDA it : it.kind \in kinds)

KeysOf(items) == [i \in 1..Len(items) |-> items[i].key]

IdxOf(frame) == [i \in 1..Len(frame) |-> frame[i].idx]

---------------------------------------------------------------------------
(* C1 *)

\* What a complete report shows for the frame: the overall metrics and
\* chart, then header, behind list and chart of every district in order.
RECURSIVE FullReportKinds(_)
FullReportKinds(n) ==
    IF n = 0 THEN <<"overall_metrics", "overall_chart">>
    ELSE FullReportKinds(n - 1) \o <<"district_header", "table", "district_chart">>

KindOf(it) ==
    IF it.kind \in {"behind_table", "all_on_target"} THEN "table" ELSE it.kind

FullReportShown ==
    /\ [i \in 1..Len(shown) |-> KindOf(shown[i])]
           = FullReportKinds(Len(Unique(DistrictColumn(df))))
    /\ Range(KeysOf(ItemsOf({"district_header"}))) = Range(DistrictColumn(df))

\* C1: a run ends either with the full report and no error message, or with
\* an error or warning and no report section at all; an error never follows
\* a section that has been shown.
C1_AllOrNothing ==
    /\ (Errors # {} \/ Warnings # {}) => shown = <<>>
    /\ (Ended /\ uploaded /\ Errors = {} /\ Warnings = {}) => FullReportShown

---------------------------------------------------------------------------
(* C2 *)

\* C2: every retained record's walksCompletedYtd is at least 0, whatever the
\* raw value was.
C2_WalksNonNegative ==
    Normalised => \A i \in 1..Len(df) : df[i].Walks_YTD >= 0

---------------------------------------------------------------------------
(* C3 *)

GroupSizes == [i \in 1..Len(districts) |-> Len(Group(df, districts[i]))]

GroupActuals ==
    [i \in 1..Len(districts) |-> SumSeq(WalksOf(Group(df, districts[i])))]

\* C3: the districts' unit counts add up to the overall unit count, their
\* actual totals to the overall actual total, and every retained record is
\* in exactly one district group.
C3_DistrictsPartition ==
    OverallComputed =>
        /\ SumSeq(GroupSizes) = totals.units
        /\ SumSeq(GroupActuals) = totals.actual
        /\ \A i \in 1..Len(df) :
              Cardinality({k \in 1..Len(districts) :
                              df[i] \in Range(Group(df, districts[k]))}) = 1

---------------------------------------------------------------------------
(* C4 *)

RECURSIVE InsertByWalks(_, _)
InsertByWalks(x, s) ==
    IF s = <<>> THEN <<x>>
    ELSE IF s[Len(s)].Walks_YTD <= x.Walks_YTD THEN Append(s, x)
    ELSE Append(InsertByWalks(x, Front(s)), s[Len(s)])

\* Ascending by Walks_YTD, equal values in their input order
RECURSIVE StableByWalks(_)
StableByWalks(s) ==
    IF s = <<>> THEN <<>>
    ELSE InsertByWalks(s[Len(s)], StableByWalks(Front(s)))

\* C4: the behind list of a district section is exactly the group's records
\* below the target, ascending by walksCompletedYtd, records with equal
\* values in input order.
C4_BehindStableSorted ==
    \A i \in 1..Len(shown) :
        shown[i].kind \in {"behind_table", "all_on_target"} =>
            shown[i].list =
                StableByWalks(BehindRows(Group(df, shown[i].key), current_period))

---------------------------------------------------------------------------
(* C5 *)

SegmentsRight(labels, values, actual, target) ==
    IF Max(actual - target, 0) > 0
    THEN /\ labels = <<"On Target", "Excess">>
         /\ values[2] = actual - target
         /\ values[1] + values[2] = actual
    ELSE /\ labels = <<"Completed", "Remaining">>
         /\ values[1] + values[2] = target
         /\ values[1] = actual

\* C5: every pair of chart segments, overall and per district, is
\* (On Target, Excess) adding up to actualTotal when there is an excess, and
\* otherwise (Completed, Remaining) adding up to targetTotal with Completed
\* equal to actualTotal.
C5_ChartSegments ==
    /\ \A i \in 1..Len(pies) :
          SegmentsRight(pies[i].labels, pies[i].values, pies[i].actual,
                        pies[i].target)
    /\ \A i \in 1..Len(shown) :
          shown[i].kind \in {"overall_chart", "district_chart"} =>
              /\ SegmentsRight(shown[i].labels, shown[i].values,
                               shown[i].actual, shown[i].target)
              /\ shown[i].target = shown[i].units * current_period
              /\ shown[i].actual =
                    IF shown[i].kind = "overall_chart"
                    THEN SumSeq(WalksOf(df))
                    ELSE SumSeq(WalksOf(Group(df, shown[i].key)))

\* A run that drew a chart with an excess and a chart with a remainder
C5_Witness ==
    /\ \E i \in 1..Len(shown) :
          shown[i].kind = "district_chart" /\ shown[i].labels[2] = "Excess"
    /\ \E i \in 1..Len(shown) :
          /\ shown[i].kind = "overall_chart"
          /\ shown[i].labels[2] = "Remaining"
          /\ shown[i].values[2] > 0

---------------------------------------------------------------------------
(* C6 *)

\* C6: with a required column absent the run ends with the schema error and
\* nothing else: no report section, no empty-result warning.
C6_SchemaErrorOnly ==
    (uploaded /\ cols # AllColumns /\ Ended) =>
        /\ shown = <<>>
        /\ Warnings = {}
        /\ \E m \in Errors : m.exc = "KeyError"

---------------------------------------------------------------------------
(* C7 *)

\* C7: once filtering has left no record, the run shows the empty-result
\* warning and stops: no error box, no aggregate, no chart, nothing rendered.
C7_EmptyHalts ==
    (Normalised /\ pc # "check" /\ IsEmpty(df)) =>
        /\ pc = "stopped"
        /\ message = <<Box("warning", "none", 31)>>
        /\ shown = <<>>
        /\ pies = <<>>
        /\ districts = <<>>
        /\ totals = [units |-> 0, target |-> 0, actual |-> 0]
        /\ ~sidebar

\* A run over a sheet with rows, all of them filtered out, that has stopped
C7_Witness ==
    /\ pc = "stopped"
    /\ uploaded
    /\ Len(rows) = MaxRows
    /\ df = <<>>
    /\ Warnings # {}

---------------------------------------------------------------------------
(* C8 *)

\* The rows the filters are to keep
Kept(r) ==
    /\ ~r.label.isna
    /\ r.sector.isna \/ ~StartsWith(r.sector.s, ExcludedPrefix)

ExpectedRetained(rs) ==
    SelectSeq([i \in 1..Len(rs) |-> i], LAMBDA i : Kept(rs[i]))

\* C8: for a sheet with all columns the retained records are the input rows
\* with a label and without the excluded sector prefix, rows with a null
\* sector name among them, in input order.
C8_RetainedIsRestriction ==
    (uploaded /\ cols = AllColumns /\ pc \notin {"start", "filter"}) =>
        /\ Normalised
        /\ IdxOf(df) = ExpectedRetained(rows)

---------------------------------------------------------------------------
(* C9 *)

FirstRow(d) == CHOOSE i \in 1..Len(df) :
    df[i].district = d /\ \A j \in 1..(i - 1) : df[j].district # d

\* C9: the presentation order holds every district of the retained rows
\* once, ascending by display name, districts with equal display names in
\* order of first occurrence; the sections shown follow that order, and a
\* finished report shows them all.
C9_DistrictOrder ==
    DistrictsSorted =>
        /\ Range(districts) = Range(DistrictColumn(df))
        /\ Cardinality(Range(districts)) = Len(districts)
        /\ \A i \in 1..Len(districts) :
              ~districts[i].isna => SortKey(districts[i]) = DmName(districts[i])
        /\ \A i, j \in 1..Len(districts) :
              i < j =>
                  /\ StrLeq(SortKey(districts[i]), SortKey(districts[j]))
                  /\ SortKey(districts[i]) = SortKey(districts[j]) =>
                        FirstRow(districts[i]) < FirstRow(districts[j])
        /\ LET keys == KeysOf(ItemsOf({"district_header"}))
           IN  /\ Len(keys) <= Len(districts)
               /\ keys = SubSeq(districts, 1, Len(keys))
               /\ pc = "done" => keys = districts

\* A finished report with two districts of the same display name, shown in
\* the order of their first rows although their keys compare the other way
C9_Witness ==
    /\ pc = "done"
    /\ Len(ItemsOf({"district_header"})) >= 2
    /\ \E i, j \in 1..Len(districts) :
          /\ i < j
          /\ SortKey(districts[i]) = SortKey(districts[j])
          /\ StrLess(districts[j].s, districts[i].s)

---------------------------------------------------------------------------
(* C10 *)

\* C10: where the compliance percentage is computed the overall target is
\* at least 1, and every district section with a text key has at least one
\* unit.
C10_TargetPositive ==
    /\ OverallComputed => totals.units >= 1 /\ totals.target >= 1
    /\ \A i \in 1..Len(shown) :
          /\ shown[i].kind = "overall_metrics" => shown[i].target >= 1
          /\ (shown[i].kind = "district_header" /\ ~shown[i].key.isna) =>
                 shown[i].units >= 1 /\ shown[i].target >= 1

\* A finished report over a sheet some of whose rows were filtered out
C10_Witness ==
    /\ pc = "done"
    /\ Len(df) < Len(rows)
    /\ totals.target >= 1
    /\ \E i \in 1..Len(shown) : shown[i].kind = "district_header"

====
